---- MODULE Spec2Model ----
(***************************************************************************)
(* A model of the CHIP-8 interpreter core of src/src/main.rs: the Chip8     *)
(* struct, its loader (load_fonts, load_rom), its opcode handlers           *)
(* (op_00e0 .. op_fx65, op_null) and the fetch/decode/execute step cycle(). *)
(*                                                                          *)
(* The struct is the record `chip`; every handler is an operator from a     *)
(* struct value to the struct value the handler leaves behind.  A Rust      *)
(* panic ends the process: it is recorded in the field `panic` with the     *)
(* message of the panic, and what the handler wrote before it stays.        *)
(* Integer overflow depends on the build: with overflow checks (the         *)
(* default `cargo build`) it panics, without them (`--release`) it wraps;   *)
(* the variable overflow_checks holds the build, chosen once.               *)
(***************************************************************************)
EXTENDS Integers, Naturals, Sequences, FiniteSets, TLC

VARIABLES
    chip,             \* the Chip8 struct (plus the field panic)
    overflow_checks,  \* TRUE: debug build, overflow panics; FALSE: release, wraps
    setup,            \* how far the set-up has come: "new", "fonts", "rom", or "unit"
    ncycles,          \* number of calls of cycle() / of handlers so far
    rom,              \* the byte sequence given to load_rom (<<>> before it)
    last,             \* the last operation: its name, the handler it ran, the
                      \* struct before it and the CALL frame a RET answers
    shadow            \* the unmatched CALLs so far: <<return address, sp before,
                      \* number of the step that made the CALL (0: before Init)>>

vars == <<chip, overflow_checks, setup, ncycles, rom, last, shadow>>

----------------------------------------------------------------------------
(* Constants of the program *)

START_ADDRESS == 512
FONTSET_START_ADDRESS == 80
FONTSET_SIZE == 80
VIDEO_WIDTH == 64
VIDEO_HEIGHT == 32
MEMORY_SIZE == 4096
STACK_SIZE == 16
\* A lit pixel is the u32 0xFFFFFFFF in the source; it is written 1 here, an
\* unlit pixel 0 (TLC's integers are 32-bit signed).
PIXEL_ON == 1

fontset ==
    << 240, 144, 144, 144, 240,
       32, 96, 32, 32, 112,
       240, 16, 240, 128, 240,
       240, 16, 240, 16, 240,
       144, 144, 240, 16, 16,
       240, 128, 240, 16, 240,
       240, 128, 240, 144, 240,
       240, 16, 32, 64, 64,
       240, 144, 240, 144, 240,
       240, 144, 240, 16, 240,
       240, 144, 240, 144, 144,
       224, 144, 224, 144, 224,
       240, 128, 128, 128, 240,
       224, 144, 144, 144, 224,
       240, 128, 240, 128, 240,
       240, 128, 240, 128, 128 >>

\* The messages of the panics the handlers can raise.
NoPanic == "none"
IndexOutOfBounds == "index out of bounds"
AddOverflow == "attempt to add with overflow"
SubOverflow == "attempt to subtract with overflow"
MulOverflow == "attempt to multiply with overflow"
ShlOverflow == "attempt to shift left with overflow"

----------------------------------------------------------------------------
(* Bitwise operators of Rust on unsigned integers *)

RECURSIVE BitAnd(_, _)
BitAnd(a, b) ==
    IF a = 0 \/ b = 0 THEN 0
    ELSE (a % 2) * (b % 2) + 2 * BitAnd(a \div 2, b \div 2)

RECURSIVE BitOr(_, _)
BitOr(a, b) ==
    IF a = 0 THEN b
    ELSE IF b = 0 THEN a
    ELSE (IF a % 2 = 1 \/ b % 2 = 1 THEN 1 ELSE 0) + 2 * BitOr(a \div 2, b \div 2)

RECURSIVE BitXor(_, _)
BitXor(a, b) ==
    IF a = 0 THEN b
    ELSE IF b = 0 THEN a
    ELSE ((a + b) % 2) + 2 * BitXor(a \div 2, b \div 2)

\* 0x80 >> col
Pow2(n) == CASE n = 0 -> 1 [] n = 1 -> 2 [] n = 2 -> 4 [] n = 3 -> 8
             [] n = 4 -> 16 [] n = 5 -> 32 [] n = 6 -> 64 [] n = 7 -> 128

----------------------------------------------------------------------------
(* The struct and its constructor *)

new ==
    [ registers   |-> [i \in 0..15 |-> 0],
      memory      |-> [a \in 0..(MEMORY_SIZE - 1) |-> 0],
      index       |-> 0,
      pc          |-> START_ADDRESS,
      stack       |-> [i \in 0..(STACK_SIZE - 1) |-> 0],
      sp          |-> 0,
      delay_timer |-> 0,
      sound_timer |-> 0,
      keypad      |-> [i \in 0..15 |-> 0],
      video       |-> [i \in 0..(VIDEO_WIDTH * VIDEO_HEIGHT - 1) |-> 0],
      opcode      |-> 0,
      panic       |-> NoPanic ]

Panic(s, msg) == [s EXCEPT !.panic = msg]

Running(s) == s.panic = NoPanic

\* The loop of load_rom writes buffer[i] to memory[0x200 + i] for i = 0, 1, ...
\* and panics at the first address outside memory; what it wrote before stays.
load_rom(s, buffer) ==
    LET room == MEMORY_SIZE - START_ADDRESS
        n    == IF Len(buffer) <= room THEN Len(buffer) ELSE room
        mem  == [a \in 0..(MEMORY_SIZE - 1) |->
                    IF a >= START_ADDRESS /\ a < START_ADDRESS + n
                    THEN buffer[a - START_ADDRESS + 1]
                    ELSE s.memory[a]]
        t    == [s EXCEPT !.memory = mem]
    IN  IF Len(buffer) > room THEN Panic(t, IndexOutOfBounds) ELSE t

load_fonts(s) ==
    [s EXCEPT !.memory =
        [a \in 0..(MEMORY_SIZE - 1) |->
            IF a >= FONTSET_START_ADDRESS /\ a < FONTSET_START_ADDRESS + FONTSET_SIZE
            THEN fontset[a - FONTSET_START_ADDRESS + 1]
            ELSE s.memory[a]]]

----------------------------------------------------------------------------
(* Operand fields, as the handlers take them from self.opcode *)

FieldX(s)   == (s.opcode \div 256) % 16     \* (opcode & 0x0F00) >> 8
FieldY(s)   == (s.opcode \div 16) % 16      \* (opcode & 0x00F0) >> 4
FieldN(s)   == s.opcode % 16                \* opcode & 0x000F
FieldKK(s)  == s.opcode % 256               \* opcode & 0x00FF
FieldNNN(s) == s.opcode % 4096              \* opcode & 0x0FFF

\* self.pc += 2 (u16)
SkipNext(s) ==
    IF s.pc + 2 > 65535
    THEN IF overflow_checks THEN Panic(s, AddOverflow)
         ELSE [s EXCEPT !.pc = (s.pc + 2) % 65536]
    ELSE [s EXCEPT !.pc = s.pc + 2]

----------------------------------------------------------------------------
(* The opcode handlers *)

\* A clear that stops after the first row of the framebuffer
op_00e0_first_row(s) ==
    [s EXCEPT !.video = [i \in 0..(VIDEO_WIDTH * VIDEO_HEIGHT - 1) |->
                            IF i < VIDEO_WIDTH THEN 0 ELSE s.video[i]]]

\* 00E0 - CLS
op_00e0(s) ==
    [s EXCEPT !.video = [i \in 0..(VIDEO_WIDTH * VIDEO_HEIGHT - 1) |-> 0]]

\* The index of the stack slot RET reads: self.stack[self.pc as usize]
RetSlot(s) == s.pc

\* 00EE - RET: sp -= 1 (u8), then pc = stack[pc]: the stack is indexed by pc
op_00ee(s) ==
    IF s.sp = 0 /\ overflow_checks THEN Panic(s, SubOverflow)
    ELSE LET t == [s EXCEPT !.sp = (s.sp + 255) % 256]
         IN  IF RetSlot(t) >= STACK_SIZE THEN Panic(t, IndexOutOfBounds)
             ELSE [t EXCEPT !.pc = t.stack[RetSlot(t)]]

\* 1nnn - JP addr
op_1nnn(s) == [s EXCEPT !.pc = FieldNNN(s)]

\* 2nnn - CALL addr: stack[sp] = pc; sp += 1; pc = nnn
op_2nnn(s) ==
    IF s.sp >= STACK_SIZE THEN Panic(s, IndexOutOfBounds)
    ELSE [s EXCEPT !.stack[s.sp] = s.pc, !.sp = s.sp + 1, !.pc = FieldNNN(s)]

\* 3xkk - SE Vx, byte
op_3xkk(s) ==
    IF s.registers[FieldX(s)] = FieldKK(s) THEN SkipNext(s) ELSE s

\* 4xkk - SNE Vx, byte
op_4xkk(s) ==
    IF s.registers[FieldX(s)] # FieldKK(s) THEN SkipNext(s) ELSE s

\* 5xy0 - SE Vx, Vy
op_5xy0(s) ==
    IF s.registers[FieldX(s)] = s.registers[FieldY(s)] THEN SkipNext(s) ELSE s

\* 6xkk - LD Vx, byte
op_6xkk(s) == [s EXCEPT !.registers[FieldX(s)] = FieldKK(s)]

\* 7xkk - ADD Vx, byte: registers[x] += byte (u8)
op_7xkk(s) ==
    LET x   == FieldX(s)
        sum == s.registers[x] + FieldKK(s)
    IN  IF sum > 255 /\ overflow_checks THEN Panic(s, AddOverflow)
        ELSE [s EXCEPT !.registers[x] = sum % 256]

\* 8xy0 - LD Vx, Vy
op_8xy0(s) == [s EXCEPT !.registers[FieldX(s)] = s.registers[FieldY(s)]]

\* 8xy1 - OR Vx, Vy
op_8xy1(s) ==
    [s EXCEPT !.registers[FieldX(s)] =
        BitOr(s.registers[FieldX(s)], s.registers[FieldY(s)])]

\* 8xy2 - AND Vx, Vy
op_8xy2(s) ==
    [s EXCEPT !.registers[FieldX(s)] =
        BitAnd(s.registers[FieldX(s)], s.registers[FieldY(s)])]

\* 8xy3 - XOR Vx, Vy
op_8xy3(s) ==
    [s EXCEPT !.registers[FieldX(s)] =
        BitXor(s.registers[FieldX(s)], s.registers[FieldY(s)])]

\* 8xy4 - ADD Vx, Vy: the sum is formed in u8 and only then widened to u16,
\* so `sum` never exceeds 255: an overflowing add panics or wraps.
op_8xy4(s) ==
    LET x    == FieldX(s)
        y    == FieldY(s)
        wide == s.registers[x] + s.registers[y]
    IN  IF wide > 255 /\ overflow_checks THEN Panic(s, AddOverflow)
        ELSE LET sum == wide % 256
                 t   == [s EXCEPT !.registers[15] = IF sum > 255 THEN 1 ELSE 0]
             IN  [t EXCEPT !.registers[x] = sum % 256]

\* 8xy5 - SUB Vx, Vy: VF is written first, then registers[x] -= registers[y]
\* reads the registers as they are after that write.
op_8xy5(s) ==
    LET x == FieldX(s)
        y == FieldY(s)
        t == [s EXCEPT !.registers[15] =
                 IF s.registers[x] > s.registers[y] THEN 1 ELSE 0]
        a == t.registers[x]
        b == t.registers[y]
    IN  IF a < b /\ overflow_checks THEN Panic(t, SubOverflow)
        ELSE [t EXCEPT !.registers[x] = (a - b + 256) % 256]

\* 8xy6 - SHR Vx
op_8xy6(s) ==
    LET x == FieldX(s)
        t == [s EXCEPT !.registers[15] = s.registers[x] % 2]
    IN  [t EXCEPT !.registers[x] = t.registers[x] \div 2]

\* 8xy7 - SUBN Vx, Vy
op_8xy7(s) ==
    LET x == FieldX(s)
        y == FieldY(s)
        t == [s EXCEPT !.registers[15] =
                 IF s.registers[y] > s.registers[x] THEN 1 ELSE 0]
        a == t.registers[y]
        b == t.registers[x]
    IN  IF a < b /\ overflow_checks THEN Panic(t, SubOverflow)
        ELSE [t EXCEPT !.registers[x] = (a - b + 256) % 256]

\* 8xyE - SHL Vx: a shift of a u8 by 1 drops the top bit, it never panics
op_8xye(s) ==
    LET x == FieldX(s)
        t == [s EXCEPT !.registers[15] = s.registers[x] \div 128]
    IN  [t EXCEPT !.registers[x] = (t.registers[x] * 2) % 256]

\* 9xy0 - SNE Vx, Vy
op_9xy0(s) ==
    IF s.registers[FieldX(s)] # s.registers[FieldY(s)] THEN SkipNext(s) ELSE s

\* Annn - LD I, addr
op_annn(s) == [s EXCEPT !.index = FieldNNN(s)]

\* Bnnn - JP V0, addr
op_bnnnn(s) == [s EXCEPT !.pc = s.registers[0] + FieldNNN(s)]

\* Cxkk - RND Vx, byte: rnd is the byte rng.gen::<u8>() returns
op_cxkk(s, rnd) == [s EXCEPT !.registers[FieldX(s)] = BitAnd(rnd, FieldKK(s))]

\* Dxyn - DRW Vx, Vy, nibble.  One step of the inner loop: the cell of the
\* framebuffer is read into the local screenPixel, VF is set on a collision,
\* and the XOR is applied to the local only: video is not written.
DrwPixel(s, spriteByte, xPos, yPos, row, col) ==
    LET cell == (yPos + row) * VIDEO_WIDTH + (xPos + col)
    IN  IF cell >= VIDEO_WIDTH * VIDEO_HEIGHT THEN Panic(s, IndexOutOfBounds)
        ELSE LET spritePixel == BitAnd(spriteByte, Pow2(7 - col))
                 screenPixel == s.video[cell]
             IN  IF spritePixel # 0 /\ screenPixel = PIXEL_ON
                 THEN [s EXCEPT !.registers[15] = 1]
                 ELSE s

RECURSIVE DrwCols(_, _, _, _, _, _)
DrwCols(s, spriteByte, xPos, yPos, row, col) ==
    IF col >= 8 \/ ~Running(s) THEN s
    ELSE DrwCols(DrwPixel(s, spriteByte, xPos, yPos, row, col),
                 spriteByte, xPos, yPos, row, col + 1)

RECURSIVE DrwRows(_, _, _, _, _)
DrwRows(s, xPos, yPos, row, height) ==
    IF row >= height \/ ~Running(s) THEN s
    ELSE LET sum == s.index + row
         IN  IF sum > 65535 /\ overflow_checks THEN Panic(s, AddOverflow)
             ELSE IF sum % 65536 >= MEMORY_SIZE THEN Panic(s, IndexOutOfBounds)
             ELSE DrwRows(DrwCols(s, s.memory[sum % 65536], xPos, yPos, row, 0),
                          xPos, yPos, row + 1, height)

op_dxyn(s) ==
    LET height == FieldN(s)
        xPos   == s.registers[FieldX(s)] % VIDEO_WIDTH
        yPos   == s.registers[FieldY(s)] % VIDEO_HEIGHT
    IN  DrwRows([s EXCEPT !.registers[15] = 0], xPos, yPos, 0, height)

\* Ex9E - SKP Vx: the key is wrapped in Some(..), and is_some() of it is true
op_ex9e(s) ==
    LET key == s.registers[FieldX(s)]
    IN  IF key >= 16 THEN Panic(s, IndexOutOfBounds) ELSE SkipNext(s)

\* ExA1 - SKNP Vx: is_none() of Some(..) is false
op_exa1(s) ==
    LET key == s.registers[FieldX(s)]
    IN  IF key >= 16 THEN Panic(s, IndexOutOfBounds) ELSE s

\* Fx07 - LD Vx, DT
op_fx07(s) == [s EXCEPT !.registers[FieldX(s)] = s.delay_timer]

\* A key-wait that releases the key it reports: keypad[0] is set to 0
op_fx0a_releasing(s) ==
    [s EXCEPT !.registers[FieldX(s)] = 0, !.keypad[0] = 0]

\* Fx0A - LD Vx, K: every keypad[i] is Some(..), so the first branch,
\* keypad[0].is_some(), is the one taken
op_fx0a(s) == [s EXCEPT !.registers[FieldX(s)] = 0]

\* Fx15 - LD DT, Vx
op_fx15(s) == [s EXCEPT !.delay_timer = s.registers[FieldX(s)]]

\* Fx18 - LD ST, Vx
op_fx18(s) == [s EXCEPT !.sound_timer = s.registers[FieldX(s)]]

\* Fx1E - ADD I, Vx: index += Vx (u16)
op_fx1e(s) ==
    LET sum == s.index + s.registers[FieldX(s)]
    IN  IF sum > 65535 /\ overflow_checks THEN Panic(s, AddOverflow)
        ELSE [s EXCEPT !.index = sum % 65536]

\* Fx29 - LD F, Vx: FONTSET_START_ADDRESS + 5 * digit, formed in u8
op_fx29(s) ==
    LET digit == s.registers[FieldX(s)]
        prod  == 5 * digit
        sum   == FONTSET_START_ADDRESS + (prod % 256)
    IN  IF prod > 255 /\ overflow_checks THEN Panic(s, MulOverflow)
        ELSE IF sum > 255 /\ overflow_checks THEN Panic(s, AddOverflow)
        ELSE [s EXCEPT !.index = sum % 256]

\* self.memory[(self.index + off) as usize] = v
StoreAt(s, off, v) ==
    LET sum == s.index + off
    IN  IF sum > 65535 /\ overflow_checks THEN Panic(s, AddOverflow)
        ELSE IF sum % 65536 >= MEMORY_SIZE THEN Panic(s, IndexOutOfBounds)
        ELSE [s EXCEPT !.memory[sum % 65536] = v]

\* self.registers[i] = self.memory[(self.index + i) as usize]
LoadAt(s, i) ==
    LET sum == s.index + i
    IN  IF sum > 65535 /\ overflow_checks THEN Panic(s, AddOverflow)
        ELSE IF sum % 65536 >= MEMORY_SIZE THEN Panic(s, IndexOutOfBounds)
        ELSE [s EXCEPT !.registers[i] = s.memory[sum % 65536]]

\* The three stores without the two value /= 10 between them: each cell gets
\* value % 10
op_fx33_undivided(s) ==
    LET value == s.registers[FieldX(s)]
        t1    == StoreAt(s, 2, value % 10)
        t2    == IF Running(t1) THEN StoreAt(t1, 1, value % 10) ELSE t1
    IN  IF Running(t2) THEN StoreAt(t2, 0, value % 10) ELSE t2

\* Fx33 - LD B, Vx: ones, then tens, then hundreds
op_fx33(s) ==
    LET value == s.registers[FieldX(s)]
        t1    == StoreAt(s, 2, value % 10)
        t2    == IF Running(t1) THEN StoreAt(t1, 1, (value \div 10) % 10) ELSE t1
    IN  IF Running(t2) THEN StoreAt(t2, 0, ((value \div 10) \div 10) % 10) ELSE t2

\* Fx55 - LD [I], Vx: for i in 0..Vx, the upper bound excluded
RECURSIVE fx55_loop(_, _, _)
fx55_loop(s, i, Vx) ==
    IF i >= Vx \/ ~Running(s) THEN s
    ELSE fx55_loop(StoreAt(s, i, s.registers[i]), i + 1, Vx)

op_fx55(s) == fx55_loop(s, 0, FieldX(s))

\* Fx65 - LD Vx, [I]: for i in 0..Vx, the upper bound excluded
RECURSIVE fx65_loop(_, _, _)
fx65_loop(s, i, Vx) ==
    IF i >= Vx \/ ~Running(s) THEN s
    ELSE fx65_loop(LoadAt(s, i), i + 1, Vx)

op_fx65(s) == fx65_loop(s, 0, FieldX(s))

\* NULL
op_null(s) == s

----------------------------------------------------------------------------
(* cycle() *)

\* v << n on a u8 without overflow checks: the shift amount is taken modulo 8
WrappingShl8(v, n) ==
    LET k == n % 8
    IN  (v * (IF k = 0 THEN 1 ELSE 2 * Pow2(k - 1))) % 256

\* The match of cycle(): the handler it selects for the local `opcode`, which
\* is a u8.  The inner matches test opcode & 0x000F (& 0x00FF) of that same u8.
decode(opcode) ==
    CASE opcode = 0 ->
            (CASE BitAnd(opcode, 15) = 0 -> "op_00e0"
               [] BitAnd(opcode, 15) = 14 -> "op_00ee"
               [] OTHER -> "op_null")
      [] opcode = 1 -> "op_1nnn"
      [] opcode = 2 -> "op_2nnn"
      [] opcode = 3 -> "op_3xkk"
      [] opcode = 4 -> "op_4xkk"
      [] opcode = 5 -> "op_5xy0"
      [] opcode = 6 -> "op_6xkk"
      [] opcode = 7 -> "op_7xkk"
      [] opcode = 8 ->
            (CASE BitAnd(opcode, 15) = 0 -> "op_8xy0"
               [] BitAnd(opcode, 15) = 1 -> "op_8xy1"
               [] BitAnd(opcode, 15) = 2 -> "op_8xy2"
               [] BitAnd(opcode, 15) = 3 -> "op_8xy3"
               [] BitAnd(opcode, 15) = 4 -> "op_8xy4"
               [] BitAnd(opcode, 15) = 5 -> "op_8xy5"
               [] BitAnd(opcode, 15) = 6 -> "op_8xy6"
               [] BitAnd(opcode, 15) = 7 -> "op_8xy7"
               [] BitAnd(opcode, 15) = 14 -> "op_8xye"
               [] OTHER -> "op_null")
      [] opcode = 9 -> "op_9xy0"
      [] opcode = 10 -> "op_annn"
      [] opcode = 11 -> "op_bnnnn"
      [] opcode = 12 -> "op_cxkk"
      [] opcode = 13 -> "op_dxyn"
      [] opcode = 14 ->
            (CASE BitAnd(opcode, 15) = 1 -> "op_exa1"
               [] BitAnd(opcode, 15) = 14 -> "op_ex9e"
               [] OTHER -> "op_null")
      [] opcode = 15 ->
            (CASE BitAnd(opcode, 255) = 7 -> "op_fx07"
               [] BitAnd(opcode, 255) = 10 -> "op_fx0a"
               [] BitAnd(opcode, 255) = 21 -> "op_fx15"
               [] BitAnd(opcode, 255) = 24 -> "op_fx18"
               [] BitAnd(opcode, 255) = 30 -> "op_fx1e"
               [] BitAnd(opcode, 255) = 41 -> "op_fx29"
               [] BitAnd(opcode, 255) = 51 -> "op_fx33"
               [] BitAnd(opcode, 255) = 85 -> "op_fx55"
               [] BitAnd(opcode, 255) = 101 -> "op_fx65"
               [] OTHER -> "op_null")
      [] OTHER -> "op_null"

\* The call of the selected handler on self.
execute(h, s, rnd) ==
    CASE h = "op_00e0" -> op_00e0(s)
      [] h = "op_00ee" -> op_00ee(s)
      [] h = "op_1nnn" -> op_1nnn(s)
      [] h = "op_2nnn" -> op_2nnn(s)
      [] h = "op_3xkk" -> op_3xkk(s)
      [] h = "op_4xkk" -> op_4xkk(s)
      [] h = "op_5xy0" -> op_5xy0(s)
      [] h = "op_6xkk" -> op_6xkk(s)
      [] h = "op_7xkk" -> op_7xkk(s)
      [] h = "op_8xy0" -> op_8xy0(s)
      [] h = "op_8xy1" -> op_8xy1(s)
      [] h = "op_8xy2" -> op_8xy2(s)
      [] h = "op_8xy3" -> op_8xy3(s)
      [] h = "op_8xy4" -> op_8xy4(s)
      [] h = "op_8xy5" -> op_8xy5(s)
      [] h = "op_8xy6" -> op_8xy6(s)
      [] h = "op_8xy7" -> op_8xy7(s)
      [] h = "op_8xye" -> op_8xye(s)
      [] h = "op_9xy0" -> op_9xy0(s)
      [] h = "op_annn" -> op_annn(s)
      [] h = "op_bnnnn" -> op_bnnnn(s)
      [] h = "op_cxkk" -> op_cxkk(s, rnd)
      [] h = "op_dxyn" -> op_dxyn(s)
      [] h = "op_ex9e" -> op_ex9e(s)
      [] h = "op_exa1" -> op_exa1(s)
      [] h = "op_fx07" -> op_fx07(s)
      [] h = "op_fx0a" -> op_fx0a(s)
      [] h = "op_fx15" -> op_fx15(s)
      [] h = "op_fx18" -> op_fx18(s)
      [] h = "op_fx1e" -> op_fx1e(s)
      [] h = "op_fx29" -> op_fx29(s)
      [] h = "op_fx33" -> op_fx33(s)
      [] h = "op_fx55" -> op_fx55(s)
      [] h = "op_fx65" -> op_fx65(s)
      [] OTHER -> op_null(s)

\* The two decrements without their tests for > 0: a u8 at 0 goes to 255
tick_timers_untested(s) ==
    [s EXCEPT !.delay_timer = (@ + 255) % 256,
              !.sound_timer = (@ + 255) % 256]

\* The timer decrements that end cycle()
tick_timers(s) ==
    [s EXCEPT !.delay_timer = IF @ > 0 THEN @ - 1 ELSE @,
              !.sound_timer = IF @ > 0 THEN @ - 1 ELSE @]

\* The fetch: (memory[pc] << 8) | memory[pc + 1], formed in u8.  The index
\* memory[pc] is checked first, then the shift by 8 (the width of a u8: an
\* overflow), then the index memory[pc + 1].  FetchPanic is the message of the
\* panic the fetch ends with, NoPanic if it ends with a value.
FetchPanic(s) ==
    IF s.pc >= MEMORY_SIZE THEN IndexOutOfBounds
    ELSE IF overflow_checks THEN ShlOverflow
    ELSE IF s.pc + 1 >= MEMORY_SIZE THEN IndexOutOfBounds
    ELSE NoPanic

Fetch(s) ==
    BitOr(WrappingShl8(s.memory[s.pc], 8), s.memory[s.pc + 1])

\* The handler cycle() runs from state s ("none" when the fetch panics)
Selected(s) ==
    IF FetchPanic(s) # NoPanic THEN "none" ELSE decode(Fetch(s))

cycle(s, rnd) ==
    IF FetchPanic(s) # NoPanic THEN Panic(s, FetchPanic(s))
    ELSE LET opcode == Fetch(s)
             t      == [s EXCEPT !.pc = s.pc + 2]
             u      == execute(decode(opcode), t, rnd)
         IN  IF Running(u) THEN tick_timers(u) ELSE u

----------------------------------------------------------------------------
(* The program as it runs: new(), load_fonts(), load_rom(), then cycle() *)

MaxCycles == 10

\* The bytes rng.gen::<u8>() is taken to return
RandomBytes == {0, 165, 255}

\* byte i of a ROM image of n bytes: never 0, so that a copied byte shows
RomImage(n) == [i \in 1..n |-> ((i - 1) % 251) + 1]

ClsJpRom == <<0, 224, 18, 0>>

Roms ==
    { ClsJpRom,
      <<18, 52>>,                 \* JP 0x234
      <<96, 42>>,                 \* LD V0, 0x2A
      <<0, 1>>, <<0, 2>>, <<0, 3>>, <<4, 0>>, <<0, 5>>, <<0, 6>>, <<7, 0>>,
      <<0, 8>>, <<0, 9>>, <<0, 10>>, <<0, 11>>, <<0, 12>>, <<0, 13>>,
      <<0, 14>>, <<0, 15>>,
      RomImage(MEMORY_SIZE - START_ADDRESS),
      RomImage(MEMORY_SIZE - START_ADDRESS + 1) }

NoFrame == <<>>

Init ==
    /\ chip = new
    /\ overflow_checks \in BOOLEAN
    /\ setup = "new"
    /\ ncycles = 0
    /\ rom = <<>>
    /\ last = [op |-> "new", handler |-> "none", pre |-> new, frame |-> NoFrame]
    /\ shadow = <<>>

LoadFonts ==
    /\ setup = "new"
    /\ chip' = load_fonts(chip)
    /\ setup' = "fonts"
    /\ last' = [op |-> "load_fonts", handler |-> "none", pre |-> chip,
                frame |-> NoFrame]
    /\ UNCHANGED <<overflow_checks, ncycles, rom, shadow>>

LoadRom ==
    /\ setup = "fonts"
    /\ \E buffer \in Roms :
          /\ chip' = load_rom(chip, buffer)
          /\ rom' = buffer
    /\ setup' = "rom"
    /\ last' = [op |-> "load_rom", handler |-> "none", pre |-> chip,
                frame |-> NoFrame]
    /\ UNCHANGED <<overflow_checks, ncycles, shadow>>

\* The shadow stack after handler h ran from s: a CALL that did not panic adds
\* its frame, a RET removes the newest one.
ShadowAfter(h, s, after) ==
    CASE h = "op_2nnn" /\ Running(after) ->
            Append(shadow, <<s.pc, s.sp, ncycles + 1>>)
      [] h = "op_00ee" /\ shadow # <<>> -> SubSeq(shadow, 1, Len(shadow) - 1)
      [] OTHER -> shadow

FrameOf(h) ==
    IF h = "op_00ee" /\ shadow # <<>> THEN shadow[Len(shadow)] ELSE NoFrame

Cycle ==
    /\ setup = "rom"
    /\ Running(chip)
    /\ ncycles < MaxCycles
    /\ \E rnd \in RandomBytes :
          /\ chip' = cycle(chip, rnd)
          /\ shadow' = ShadowAfter(Selected(chip),
                                   [chip EXCEPT !.pc = (chip.pc + 2) % 65536],
                                   chip')
    /\ ncycles' = ncycles + 1
    /\ last' = [op |-> "cycle", handler |-> Selected(chip), pre |-> chip,
                frame |-> FrameOf(Selected(chip))]
    /\ UNCHANGED <<overflow_checks, setup, rom>>

Next == LoadFonts \/ LoadRom \/ Cycle

Spec == Init /\ [][Next]_vars

----------------------------------------------------------------------------
(* The handlers called one by one.  A handler takes its operands from the    *)
(* field opcode, so a call of a handler is made with that field holding the  *)
(* instruction word; the struct it is called on is a loaded machine whose    *)
(* registers, index, pc, stack, keypad and framebuffer are drawn from small  *)
(* sets of values.                                                           *)

MaxUnitOps == 2
MaxStackOps == 3
MaxBcdOps == 1
MaxPadOps == 1

\* 255, 255: two all-ones sprite rows; 129, 60: two mixed rows
UnitRom == <<255, 255, 129, 60>>

UnitChip == load_rom(load_fonts(new), UnitRom)

Word(kind, x, y, n) == 4096 * kind + 256 * x + 16 * y + n

UnitInit(chips) ==
    /\ chip \in chips
    /\ overflow_checks \in BOOLEAN
    /\ setup = "unit"
    /\ ncycles = 0
    /\ rom = UnitRom
    /\ last = [op |-> "new", handler |-> "none", pre |-> new, frame |-> NoFrame]

\* A handler may be called: the machine is loaded and has not panicked
UnitReady(maxops) ==
    /\ setup = "unit"
    /\ Running(chip)
    /\ ncycles < maxops

\* The call of handler h with self.opcode = word
UnitCall(h, word) ==
    /\ LET s == [chip EXCEPT !.opcode = word]
       IN  /\ \E rnd \in (IF h = "op_cxkk" THEN RandomBytes ELSE {0}) :
                 /\ chip' = execute(h, s, rnd)
                 /\ shadow' = ShadowAfter(h, s, chip')
           /\ last' = [op |-> "handler", handler |-> h, pre |-> s,
                       frame |-> FrameOf(h)]
    /\ ncycles' = ncycles + 1
    /\ UNCHANGED <<overflow_checks, setup, rom>>

(* CALL, RET and JP on stacks of several depths *)

StackDepths == {0, 1, 15, 16}
StackPcs == {514, 6}
CallTargets == {6, 768}
JpTargets == {4, 1024}

\* the stack after d CALLs, made from the addresses 0x200, 0x204, ...
FilledStack(d) ==
    [i \in 0..(STACK_SIZE - 1) |-> IF i < d THEN START_ADDRESS + 2 + 4 * i ELSE 0]

FramesOf(d) == [i \in 1..d |-> <<FilledStack(d)[i - 1], i - 1, 0>>]

StackChips ==
    { [UnitChip EXCEPT !.sp = d, !.stack = FilledStack(d), !.pc = p] :
        d \in StackDepths, p \in StackPcs }

InitStack ==
    /\ UnitInit(StackChips)
    /\ shadow = FramesOf(chip.sp)

StackCall ==
    /\ UnitReady(MaxStackOps)
    /\ \E nnn \in CallTargets :
          UnitCall("op_2nnn", Word(2, 0, 0, 0) + nnn)

StackRet ==
    /\ UnitReady(MaxStackOps)
    /\ UnitCall("op_00ee", Word(0, 0, 14, 14))

StackJp ==
    /\ UnitReady(MaxStackOps)
    /\ \E nnn \in JpTargets :
          UnitCall("op_1nnn", Word(1, 0, 0, 0) + nnn)

NextStack == StackCall \/ StackRet \/ StackJp

SpecStack == InitStack /\ [][NextStack]_vars

(* DRW and CLS *)

\* V0..V5 hold coordinates, VF holds a stale flag
DrawRegs ==
    [i \in 0..15 |->
        CASE i = 0 -> 0 [] i = 1 -> 8 [] i = 2 -> 56 [] i = 3 -> 60
          [] i = 4 -> 31 [] i = 5 -> 70 [] i = 15 -> 1 [] OTHER -> 0]

DrawVideos ==
    { [i \in 0..(VIDEO_WIDTH * VIDEO_HEIGHT - 1) |-> 0],
      [i \in 0..(VIDEO_WIDTH * VIDEO_HEIGHT - 1) |-> IF i < 8 THEN PIXEL_ON ELSE 0],
      [i \in 0..(VIDEO_WIDTH * VIDEO_HEIGHT - 1) |-> PIXEL_ON] }

DrawChips ==
    { [UnitChip EXCEPT !.registers = DrawRegs, !.index = a, !.video = v] :
        a \in {START_ADDRESS, START_ADDRESS + 2}, v \in DrawVideos }

InitDraw ==
    /\ UnitInit(DrawChips)
    /\ shadow = <<>>

DrawSprite ==
    /\ UnitReady(MaxUnitOps)
    /\ \E x \in {0, 1, 3}, y \in {0, 4}, n \in {1, 2} :
          UnitCall("op_dxyn", Word(13, x, y, n))

ClearScreen ==
    /\ UnitReady(MaxUnitOps)
    /\ UnitCall("op_00e0", Word(0, 0, 14, 0))

NextDraw == DrawSprite \/ ClearScreen

SpecDraw == InitDraw /\ [][NextDraw]_vars

(* The key opcodes *)

KeyRegs == [i \in 0..15 |-> (i + 3) % 16]

Keypads ==
    { [i \in 0..15 |-> 0],
      [i \in 0..15 |-> IF i = 0 THEN 1 ELSE 0],
      [i \in 0..15 |-> IF i \in {3, 7} THEN 1 ELSE 0],
      [i \in 0..15 |-> IF i = 15 THEN 1 ELSE 0] }

KeyChips ==
    { [UnitChip EXCEPT !.registers = KeyRegs, !.keypad = k, !.pc = START_ADDRESS + 2] :
        k \in Keypads }

InitKey ==
    /\ UnitInit(KeyChips)
    /\ shadow = <<>>

WaitKey ==
    /\ UnitReady(MaxUnitOps)
    /\ \E x \in {0, 2, 13} :
          UnitCall("op_fx0a", Word(15, x, 0, 10))

SkipIfKey ==
    /\ UnitReady(MaxUnitOps)
    /\ \E x \in {0, 2, 13} :
          UnitCall("op_ex9e", Word(14, x, 9, 14))

SkipIfNotKey ==
    /\ UnitReady(MaxUnitOps)
    /\ \E x \in {0, 2, 13} :
          UnitCall("op_exa1", Word(14, x, 10, 1))

NextKey == WaitKey \/ SkipIfKey \/ SkipIfNotKey

SpecKey == InitKey /\ [][NextKey]_vars

(* ADD Vx,Vy and SUB Vx,Vy *)

ArithRegs ==
    { [i \in 0..15 |->
          CASE i = 0 -> 200 [] i = 1 -> 100 [] i = 2 -> 5 [] i = 15 -> 3
            [] OTHER -> 0],
      [i \in 0..15 |->
          CASE i = 0 -> 1 [] i = 1 -> 255 [] i = 2 -> 128 [] i = 15 -> 130
            [] OTHER -> 0] }

ArithChips == { [UnitChip EXCEPT !.registers = r] : r \in ArithRegs }

InitArith ==
    /\ UnitInit(ArithChips)
    /\ shadow = <<>>

AddRegs ==
    /\ UnitReady(MaxUnitOps)
    /\ \E x \in {0, 2, 15}, y \in {1, 2, 15} :
          UnitCall("op_8xy4", Word(8, x, y, 4))

SubRegs ==
    /\ UnitReady(MaxUnitOps)
    /\ \E x \in {0, 2, 15}, y \in {1, 2, 15} :
          UnitCall("op_8xy5", Word(8, x, y, 5))

NextArith == AddRegs \/ SubRegs

SpecArith == InitArith /\ [][NextArith]_vars

(* LD [I],Vx and LD Vx,[I] *)

MemRegs == [i \in 0..15 |-> 17 + i]

MemChips ==
    { [UnitChip EXCEPT !.registers = MemRegs, !.index = a] :
        a \in {768, START_ADDRESS, MEMORY_SIZE - 2} }

InitMem ==
    /\ UnitInit(MemChips)
    /\ shadow = <<>>

StoreRegs ==
    /\ UnitReady(MaxUnitOps)
    /\ \E x \in {0, 3, 15} :
          UnitCall("op_fx55", Word(15, x, 5, 5))

LoadRegs ==
    /\ UnitReady(MaxUnitOps)
    /\ \E x \in {0, 3, 15} :
          UnitCall("op_fx65", Word(15, x, 6, 5))

ClearReg ==
    /\ UnitReady(MaxUnitOps)
    /\ \E x \in {0, 3} :
          UnitCall("op_6xkk", Word(6, x, 0, 0))

NextMem == StoreRegs \/ LoadRegs \/ ClearReg

SpecMem == InitMem /\ [][NextMem]_vars

(* The timers: LD DT,Vx, LD ST,Vx and cycle() on machines whose timers run *)

TimerRegs ==
    [i \in 0..15 |-> CASE i = 0 -> 0 [] i = 1 -> 1 [] i = 2 -> 255 [] OTHER -> 7]

TimerChips ==
    { [UnitChip EXCEPT !.registers = TimerRegs, !.delay_timer = d, !.sound_timer = t] :
        d \in {0, 1, 200}, t \in {0, 2} }

InitTimer ==
    /\ UnitInit(TimerChips)
    /\ shadow = <<>>

SetDelayTimer ==
    /\ UnitReady(MaxUnitOps)
    /\ \E x \in {0, 1, 2} :
          UnitCall("op_fx15", Word(15, x, 1, 5))

SetSoundTimer ==
    /\ UnitReady(MaxUnitOps)
    /\ \E x \in {0, 1, 2} :
          UnitCall("op_fx18", Word(15, x, 1, 8))

\* One call of cycle() on the machine as it stands
UnitCycle ==
    /\ \E rnd \in RandomBytes :
          /\ chip' = cycle(chip, rnd)
          /\ shadow' = ShadowAfter(Selected(chip),
                                   [chip EXCEPT !.pc = (chip.pc + 2) % 65536],
                                   chip')
    /\ last' = [op |-> "cycle", handler |-> Selected(chip), pre |-> chip,
                frame |-> FrameOf(Selected(chip))]
    /\ ncycles' = ncycles + 1
    /\ UNCHANGED <<overflow_checks, setup, rom>>

TimerCycle ==
    /\ UnitReady(MaxUnitOps)
    /\ UnitCycle

NextTimer == SetDelayTimer \/ SetSoundTimer \/ TimerCycle

SpecTimer == InitTimer /\ [][NextTimer]_vars

(* LD B,Vx on every value of a register *)

\* V0 holds v and V5 holds 255 - v
BcdRegs ==
    { [i \in 0..15 |-> CASE i = 0 -> v [] i = 5 -> 255 - v [] OTHER -> 0] :
        v \in 0..255 }

\* index in the ROM area over the bytes of UnitRom for every v; at the last
\* three cells of memory and one cell further for v = 234
BcdChips ==
    { [UnitChip EXCEPT !.registers = r, !.index = START_ADDRESS + 1] : r \in BcdRegs }
    \cup { [UnitChip EXCEPT !.registers[0] = 234, !.registers[5] = 21, !.index = a] :
              a \in {MEMORY_SIZE - 3, MEMORY_SIZE - 2} }

InitBcd ==
    /\ UnitInit(BcdChips)
    /\ shadow = <<>>

StoreBcd ==
    /\ UnitReady(MaxBcdOps)
    /\ \E x \in {0, 5} :
          UnitCall("op_fx33", Word(15, x, 3, 3))

NextBcd == StoreBcd

SpecBcd == InitBcd /\ [][NextBcd]_vars

(* ADD Vx,kk, SUBN Vx,Vy, SHL Vx and ADD I,Vx on operands that overflow *)

\* index at the top of memory and 100 below the top of a u16
WrapChips ==
    { [UnitChip EXCEPT !.registers = r, !.index = a] :
        r \in ArithRegs, a \in {MEMORY_SIZE - 1, 65435} }

InitWrap ==
    /\ UnitInit(WrapChips)
    /\ shadow = <<>>

AddByte ==
    /\ UnitReady(MaxUnitOps)
    /\ \E kk \in {100, 255} :
          UnitCall("op_7xkk", Word(7, 0, 0, 0) + kk)

SubnRegs ==
    /\ UnitReady(MaxUnitOps)
    /\ \E x \in {0, 1} :
          UnitCall("op_8xy7", Word(8, x, 1 - x, 7))

ShiftLeft ==
    /\ UnitReady(MaxUnitOps)
    /\ \E x \in {0, 2} :
          UnitCall("op_8xye", Word(8, x, 0, 14))

AddIndex ==
    /\ UnitReady(MaxUnitOps)
    /\ \E x \in {0, 2} :
          UnitCall("op_fx1e", Word(15, x, 1, 14))

NextWrap == AddByte \/ SubnRegs \/ ShiftLeft \/ AddIndex

SpecWrap == InitWrap /\ [][NextWrap]_vars

(* LD F,Vx on digits and on larger values *)

\* one file holds the digit i in Vi, the other values from 16 to 241
FontRegs ==
    { [i \in 0..15 |-> i],
      [i \in 0..15 |-> (37 * i + 16) % 256] }

FontChips == { [UnitChip EXCEPT !.registers = r] : r \in FontRegs }

InitFont ==
    /\ UnitInit(FontChips)
    /\ shadow = <<>>

LoadGlyph ==
    /\ UnitReady(MaxUnitOps)
    /\ \E x \in 0..15 :
          UnitCall("op_fx29", Word(15, x, 2, 9))

NextFont == LoadGlyph

SpecFont == InitFont /\ [][NextFont]_vars

(* Every handler, and cycle(), on machines whose keys are held *)

\* One word for each handler (x = 1, y = 2), and 0x0123 for op_null
PadCalls ==
    { <<"op_00e0", 224>>, <<"op_00ee", 238>>,
      <<"op_1nnn", Word(1, 2, 0, 4)>>, <<"op_2nnn", Word(2, 2, 0, 4)>>,
      <<"op_3xkk", Word(3, 1, 0, 4)>>, <<"op_4xkk", Word(4, 1, 0, 4)>>,
      <<"op_5xy0", Word(5, 1, 2, 0)>>, <<"op_6xkk", Word(6, 1, 4, 2)>>,
      <<"op_7xkk", Word(7, 1, 4, 2)>>,
      <<"op_8xy0", Word(8, 1, 2, 0)>>, <<"op_8xy1", Word(8, 1, 2, 1)>>,
      <<"op_8xy2", Word(8, 1, 2, 2)>>, <<"op_8xy3", Word(8, 1, 2, 3)>>,
      <<"op_8xy4", Word(8, 1, 2, 4)>>, <<"op_8xy5", Word(8, 1, 2, 5)>>,
      <<"op_8xy6", Word(8, 1, 2, 6)>>, <<"op_8xy7", Word(8, 1, 2, 7)>>,
      <<"op_8xye", Word(8, 1, 2, 14)>>,
      <<"op_9xy0", Word(9, 1, 2, 0)>>, <<"op_annn", Word(10, 3, 0, 0)>>,
      <<"op_bnnnn", Word(11, 3, 0, 0)>>, <<"op_cxkk", Word(12, 1, 15, 15)>>,
      <<"op_dxyn", Word(13, 1, 2, 1)>>,
      <<"op_ex9e", Word(14, 1, 9, 14)>>, <<"op_exa1", Word(14, 1, 10, 1)>>,
      <<"op_fx07", Word(15, 1, 0, 7)>>, <<"op_fx0a", Word(15, 1, 0, 10)>>,
      <<"op_fx15", Word(15, 1, 1, 5)>>, <<"op_fx18", Word(15, 1, 1, 8)>>,
      <<"op_fx1e", Word(15, 1, 1, 14)>>, <<"op_fx29", Word(15, 1, 2, 9)>>,
      <<"op_fx33", Word(15, 1, 3, 3)>>, <<"op_fx55", Word(15, 1, 5, 5)>>,
      <<"op_fx65", Word(15, 1, 6, 5)>>,
      <<"op_null", Word(0, 1, 2, 3)>> }

InitPad ==
    /\ UnitInit(KeyChips)
    /\ shadow = <<>>

PadHandler ==
    /\ UnitReady(MaxPadOps)
    /\ \E c \in PadCalls :
          UnitCall(c[1], c[2])

PadCycle ==
    /\ UnitReady(MaxPadOps)
    /\ UnitCycle

NextPad == PadHandler \/ PadCycle

SpecPad == InitPad /\ [][NextPad]_vars

(* The instructions that give pc and index a value, and those that address  *)
(* memory by them                                                           *)

\* pc at the start of the program and at the last word of memory; V0 = 255
\* for JP V0, V1 = 2 for ADD I, V3 = 0 for the skip and as DRW's coordinates
AddrChips ==
    { [UnitChip EXCEPT !.registers = [i \in 0..15 |->
                                         CASE i = 0 -> 255 [] i = 1 -> 2 [] OTHER -> 0],
                       !.index = 768, !.pc = p] :
        p \in {START_ADDRESS, MEMORY_SIZE - 2} }

InitAddr ==
    /\ UnitInit(AddrChips)
    /\ shadow = <<>>

Jump ==
    /\ UnitReady(MaxUnitOps)
    /\ \E nnn \in {MEMORY_SIZE - 2, MEMORY_SIZE - 1} :
          UnitCall("op_1nnn", Word(1, 0, 0, 0) + nnn)

JumpV0 ==
    /\ UnitReady(MaxUnitOps)
    /\ UnitCall("op_bnnnn", Word(11, 0, 0, 0) + MEMORY_SIZE - 1)

SkipEq ==
    /\ UnitReady(MaxUnitOps)
    /\ UnitCall("op_3xkk", Word(3, 3, 0, 0))

LoadIndex ==
    /\ UnitReady(MaxUnitOps)
    /\ \E nnn \in {MEMORY_SIZE - 3, MEMORY_SIZE - 1} :
          UnitCall("op_annn", Word(10, 0, 0, 0) + nnn)

BumpIndex ==
    /\ UnitReady(MaxUnitOps)
    /\ UnitCall("op_fx1e", Word(15, 1, 1, 14))

AddrCycle ==
    /\ UnitReady(MaxUnitOps)
    /\ UnitCycle

AddrDraw ==
    /\ UnitReady(MaxUnitOps)
    /\ \E n \in {1, 2} :
          UnitCall("op_dxyn", Word(13, 3, 3, n))

AddrBcd ==
    /\ UnitReady(MaxUnitOps)
    /\ UnitCall("op_fx33", Word(15, 1, 3, 3))

AddrStore ==
    /\ UnitReady(MaxUnitOps)
    /\ UnitCall("op_fx55", Word(15, 2, 5, 5))

AddrLoad ==
    /\ UnitReady(MaxUnitOps)
    /\ UnitCall("op_fx65", Word(15, 2, 6, 5))

NextAddr ==
    \/ Jump \/ JumpV0 \/ SkipEq \/ LoadIndex \/ BumpIndex
    \/ AddrCycle \/ AddrDraw \/ AddrBcd \/ AddrStore \/ AddrLoad

SpecAddr == InitAddr /\ [][NextAddr]_vars

----------------------------------------------------------------------------
(* The claims *)

\* The instruction word of the claims: memory[pc] the high byte, memory[pc+1]
\* the low byte.
WordAt(s) == 256 * s.memory[s.pc] + s.memory[s.pc + 1]

\* The handler the two-level dispatch of the claims selects for a word: first
\* on the top nibble, then on n (kinds 0x0, 0x8, 0xE) or kk (kind 0xF).
ClaimedHandler(word) ==
    LET kind == word \div 4096
        n    == word % 16
        kk   == word % 256
    IN  CASE kind = 0 -> (CASE n = 0 -> "op_00e0" [] n = 14 -> "op_00ee"
                            [] OTHER -> "op_null")
          [] kind = 1 -> "op_1nnn"
          [] kind = 2 -> "op_2nnn"
          [] kind = 3 -> "op_3xkk"
          [] kind = 4 -> "op_4xkk"
          [] kind = 5 -> "op_5xy0"
          [] kind = 6 -> "op_6xkk"
          [] kind = 7 -> "op_7xkk"
          [] kind = 8 -> (CASE n = 0 -> "op_8xy0" [] n = 1 -> "op_8xy1"
                            [] n = 2 -> "op_8xy2" [] n = 3 -> "op_8xy3"
                            [] n = 4 -> "op_8xy4" [] n = 5 -> "op_8xy5"
                            [] n = 6 -> "op_8xy6" [] n = 7 -> "op_8xy7"
                            [] n = 14 -> "op_8xye" [] OTHER -> "op_null")
          [] kind = 9 -> "op_9xy0"
          [] kind = 10 -> "op_annn"
          [] kind = 11 -> "op_bnnnn"
          [] kind = 12 -> "op_cxkk"
          [] kind = 13 -> "op_dxyn"
          [] kind = 14 -> (CASE n = 1 -> "op_exa1" [] n = 14 -> "op_ex9e"
                             [] OTHER -> "op_null")
          [] kind = 15 -> (CASE kk = 7 -> "op_fx07" [] kk = 10 -> "op_fx0a"
                             [] kk = 21 -> "op_fx15" [] kk = 24 -> "op_fx18"
                             [] kk = 30 -> "op_fx1e" [] kk = 41 -> "op_fx29"
                             [] kk = 51 -> "op_fx33" [] kk = 85 -> "op_fx55"
                             [] kk = 101 -> "op_fx65" [] OTHER -> "op_null")

\* C1: a call of cycle() runs the handler that the word stored big-endian at
\* memory[pc], memory[pc+1] selects by its top nibble, then by n or kk (a word
\* 0x1nnn runs JP, 0x6xkk runs LD Vx,kk, 0xDxyn runs DRW).
C1_CycleRunsHandlerOfWord ==
    (last.op = "cycle" /\ last.pre.pc + 1 < MEMORY_SIZE)
        => last.handler = ClaimedHandler(WordAt(last.pre))

\* The operands of the handler call that led to this state
LastX == FieldX(last.pre)
LastY == FieldY(last.pre)
LastN == FieldN(last.pre)

Ran(h) == last.op = "handler" /\ last.handler = h

\* C2: a RET that answers a CALL made earlier in the run sets pc to the
\* address following the CALL (the pc the CALL pushed) and leaves sp as it was
\* before the CALL; nested CALLs return last-in-first-out.
C2_RetReturnsToCaller ==
    (Ran("op_00ee") /\ last.frame # NoFrame /\ last.frame[3] >= 1)
        => /\ Running(chip)
           /\ chip.pc = last.frame[1]
           /\ chip.sp = last.frame[2]

\* Whether sprite row `row` of the DRW has its bit `col` on
SpriteBit(s, row, col) == (s.memory[s.index + row] \div Pow2(7 - col)) % 2 = 1

\* The framebuffer cell of sprite pixel (row, col) of the DRW
SpriteCell(s, row, col) ==
    ((s.registers[FieldY(s)] % 32) + row) * 64 + (s.registers[FieldX(s)] % 64) + col

\* C3: a DRW whose sprite lies inside the screen replaces each framebuffer
\* cell covered by an on sprite bit by its XOR with on, leaves the other cells,
\* and sets VF = 1 iff some on cell was turned off (else 0): an all-ones 8x1
\* sprite on an all-off region lights those 8 pixels with VF = 0, and drawn
\* again turns them off with VF = 1.
C3_DrawXorsSprite ==
    LET s == last.pre
        covered == { <<row, col>> \in (0..(LastN - 1)) \X (0..7) : SpriteBit(s, row, col) }
        cells == { SpriteCell(s, rc[1], rc[2]) : rc \in covered }
    IN  (/\ Ran("op_dxyn")
         /\ s.registers[LastX] % 64 <= 56
         /\ (s.registers[LastY] % 32) + LastN <= 32)
            => /\ Running(chip)
               /\ \A i \in 0..2047 :
                     chip.video[i] = IF i \in cells THEN 1 - s.video[i] ELSE s.video[i]
               /\ chip.registers[15] =
                     IF \E i \in cells : s.video[i] = PIXEL_ON THEN 1 ELSE 0

\* The keys held in a keypad
Held(s) == { i \in 0..15 : s.keypad[i] # 0 }

Lowest(S) == CHOOSE i \in S : \A j \in S : i <= j

\* C4: a key-wait executed while no key is held leaves pc at the address of
\* the Fx0A instruction (2 below the pc the handler starts with) and Vx
\* unchanged; executed while some key is held it puts the lowest held index
\* in Vx and leaves pc past the instruction.
C4_KeyWaitRepeatsUntilKey ==
    Ran("op_fx0a")
        => /\ Running(chip)
           /\ IF Held(last.pre) = {}
              THEN /\ chip.pc = last.pre.pc - 2
                   /\ chip.registers = last.pre.registers
              ELSE /\ chip.pc = last.pre.pc
                   /\ chip.registers[LastX] = Lowest(Held(last.pre))

\* C5: ADD Vx,Vy with x # 0xF ends without a fault, with VF = 1 iff
\* Vx + Vy > 255 and Vx = (Vx + Vy) mod 256.
C5_AddSetsCarry ==
    LET a == last.pre.registers[LastX]
        b == last.pre.registers[LastY]
    IN  (Ran("op_8xy4") /\ LastX # 15)
            => /\ Running(chip)
               /\ chip.registers[15] = IF a + b > 255 THEN 1 ELSE 0
               /\ chip.registers[LastX] = (a + b) % 256

\* C6: SUB Vx,Vy with x # 0xF ends with VF = 1 iff Vx > Vy and
\* Vx = (Vx - Vy) mod 256, also when Vx < Vy.
C6_SubSetsNotBorrow ==
    LET a == last.pre.registers[LastX]
        b == last.pre.registers[LastY]
    IN  (Ran("op_8xy5") /\ LastX # 15)
            => /\ Running(chip)
               /\ chip.registers[15] = IF a > b THEN 1 ELSE 0
               /\ chip.registers[LastX] = (a - b + 256) % 256

\* C7: LD [I],Vx stores the x+1 registers V0..Vx into memory[index..index+x],
\* and LD Vx,[I] loads V0..Vx from those cells (so a store followed by a load
\* gives back all x+1 registers).
C7_StoreLoadInclusive ==
    LET s == last.pre
    IN  /\ (Ran("op_fx55") /\ s.index + LastX < MEMORY_SIZE)
              => /\ Running(chip)
                 /\ \A i \in 0..LastX : chip.memory[s.index + i] = s.registers[i]
        /\ (Ran("op_fx65") /\ s.index + LastX < MEMORY_SIZE)
              => /\ Running(chip)
                 /\ \A i \in 0..LastX : chip.registers[i] = s.memory[s.index + i]

\* C8: a CALL executed with sp = 16 and a RET executed with sp = 0 are fatal:
\* execution stops there; it does not go on with a wrapped sp or with a pc
\* read from the stack.
C8_StackFaultsHalt ==
    (\/ (Ran("op_2nnn") /\ last.pre.sp = STACK_SIZE)
     \/ (Ran("op_00ee") /\ last.pre.sp = 0))
        => ~Running(chip)

\* C9: load_rom of L <= 3584 bytes copies byte i to memory[0x200 + i] and
\* changes no address below 0x200; for L >= 3585 it fails with the RomTooLarge
\* condition.
C9_LoadRomCopiesOrRomTooLarge ==
    (last.op = "load_rom")
        => IF Len(rom) <= 3584
           THEN /\ Running(chip)
                /\ \A i \in 1..Len(rom) : chip.memory[START_ADDRESS + i - 1] = rom[i]
                /\ \A a \in 0..(START_ADDRESS - 1) : chip.memory[a] = last.pre.memory[a]
           ELSE chip.panic = "RomTooLarge"

\* C10: with the ROM 00 E0 12 00 (CLS; JP 0x200) loaded, after every cycle the
\* framebuffer is all-off, after every even-numbered cycle pc = 0x200 and
\* after every odd-numbered cycle pc = 0x202.
C10_ClsJpLoops ==
    (setup = "rom" /\ rom = ClsJpRom)
        => /\ \A i \in 0..(VIDEO_WIDTH * VIDEO_HEIGHT - 1) : chip.video[i] = 0
           /\ (ncycles % 2 = 0 => chip.pc = 512)
           /\ (ncycles % 2 = 1 => chip.pc = 514)

\* Whether the key named by Vx of the handler call is held
KeyOfVxHeld ==
    LET key == last.pre.registers[LastX]
    IN  key < 16 /\ last.pre.keypad[key] # 0

\* C11: SKP Vx adds 2 to pc iff keypad[Vx] is pressed and SKNP Vx adds 2 to pc
\* iff keypad[Vx] is not pressed (so for one Vx and keypad exactly one of the
\* two skips); otherwise pc is left as the fetch advanced it.
C11_SkipIffKeyHeld ==
    /\ Ran("op_ex9e")
          => /\ Running(chip)
             /\ chip.pc = last.pre.pc + (IF KeyOfVxHeld THEN 2 ELSE 0)
    /\ Ran("op_exa1")
          => /\ Running(chip)
             /\ chip.pc = last.pre.pc + (IF KeyOfVxHeld THEN 0 ELSE 2)

\* Whether a word is one of the documented instruction patterns
Documented(word) ==
    LET kind == word \div 4096
        n    == word % 16
        kk   == word % 256
    IN  CASE kind = 0 -> word \in {224, 238}
          [] kind \in {5, 9} -> n = 0
          [] kind = 8 -> n \in (0..7) \cup {14}
          [] kind = 14 -> kk \in {158, 161}
          [] kind = 15 -> kk \in {7, 10, 21, 24, 30, 41, 51, 85, 101}
          [] OTHER -> TRUE

\* C12: a cycle whose fetched word is no documented instruction ends without a
\* fault with pc advanced by exactly 2 and with registers, index, memory,
\* stack, sp, keypad and framebuffer as they were.
C12_UndocumentedWordIsNoOp ==
    (/\ last.op = "cycle"
     /\ last.pre.pc + 1 < MEMORY_SIZE
     /\ ~Documented(WordAt(last.pre)))
        => /\ Running(chip)
           /\ chip.pc = last.pre.pc + 2
           /\ chip.registers = last.pre.registers
           /\ chip.index = last.pre.index
           /\ chip.memory = last.pre.memory
           /\ chip.stack = last.pre.stack
           /\ chip.sp = last.pre.sp
           /\ chip.keypad = last.pre.keypad
           /\ chip.video = last.pre.video

\* A timer after one tick from the value v
Ticked(v) == IF v > 0 THEN v - 1 ELSE 0

\* C13: both timers always hold a value in 0..255, and a cycle that runs to
\* its timer tick leaves each timer one lower if it was non-zero and at 0 if
\* it was 0 (no wrap below zero), whatever LD DT,Vx and LD ST,Vx set before.
C13_TimersTickDownToZero ==
    /\ chip.delay_timer \in 0..255
    /\ chip.sound_timer \in 0..255
    /\ (last.op = "cycle" /\ Running(chip))
          => /\ chip.delay_timer = Ticked(last.pre.delay_timer)
             /\ chip.sound_timer = Ticked(last.pre.sound_timer)

\* a cycle ticked after LD DT,V2 had set the delay timer to 255 and while the
\* sound timer was 0
C13_Witness ==
    /\ last.op = "cycle"
    /\ Running(chip)
    /\ last.pre.opcode = Word(15, 2, 1, 5)
    /\ last.pre.delay_timer = 255
    /\ chip.delay_timer = 254
    /\ last.pre.sound_timer = 0
    /\ chip.sound_timer = 0

\* C14: LD B,Vx with the cells index..index+2 inside memory ends without a
\* fault with memory[index] = v / 100, memory[index+1] = (v / 10) mod 10 and
\* memory[index+2] = v mod 10, v the value of Vx, every other memory cell and
\* every register as before.
C14_BcdWritesThreeDigits ==
    LET s == last.pre
        v == s.registers[LastX]
    IN  (Ran("op_fx33") /\ s.index + 2 < MEMORY_SIZE)
            => /\ Running(chip)
               /\ chip.memory[s.index] = v \div 100
               /\ chip.memory[s.index + 1] = (v \div 10) % 10
               /\ chip.memory[s.index + 2] = v % 10
               /\ \A a \in 0..(MEMORY_SIZE - 1) :
                     a \notin s.index..(s.index + 2) => chip.memory[a] = s.memory[a]
               /\ chip.registers = s.registers

\* LD B,V0 with V0 = 234 wrote 2, 3, 4 over the bytes 255, 129, 60 of the ROM
C14_Witness ==
    /\ Ran("op_fx33")
    /\ Running(chip)
    /\ LastX = 0
    /\ last.pre.registers[0] = 234
    /\ last.pre.index = START_ADDRESS + 1
    /\ last.pre.memory[START_ADDRESS + 1] = 255
    /\ chip.memory[START_ADDRESS + 1] = 2
    /\ chip.memory[START_ADDRESS + 2] = 3
    /\ chip.memory[START_ADDRESS + 3] = 4

\* C15: CLS ends without a fault with each of the 2048 framebuffer cells off,
\* whatever the framebuffer held, and with every other field of the machine
\* as it was.
C15_ClsClearsOnlyVideo ==
    Ran("op_00e0")
        => /\ Running(chip)
           /\ \A i \in 0..(VIDEO_WIDTH * VIDEO_HEIGHT - 1) : chip.video[i] = 0
           /\ chip = [last.pre EXCEPT !.video = chip.video]

\* CLS ran on the framebuffer that had every cell on
C15_Witness ==
    /\ Ran("op_00e0")
    /\ \A i \in 0..(VIDEO_WIDTH * VIDEO_HEIGHT - 1) : last.pre.video[i] = PIXEL_ON
    /\ chip.video[VIDEO_WIDTH * VIDEO_HEIGHT - 1] = 0

\* C16: a cycle that fetches the word 0x6xkk ends with register x holding kk,
\* and one that fetches 0x1nnn ends with pc = nnn: the handler's operands are
\* the fields of the word fetched in that cycle.
C16_OperandsOfFetchedWord ==
    LET w == WordAt(last.pre)
    IN  (last.op = "cycle" /\ last.pre.pc + 1 < MEMORY_SIZE)
            => /\ (w \div 4096 = 6)
                     => /\ Running(chip)
                        /\ chip.registers[(w \div 256) % 16] = w % 256
               /\ (w \div 4096 = 1)
                     => /\ Running(chip)
                        /\ chip.pc = w % 4096

\* The stack slots written by the CALLs that were unmatched when the last
\* handler was called
UnmatchedSlots ==
    { shadow[i][2] : i \in 1..Len(shadow) }
        \cup (IF last.frame = NoFrame THEN {} ELSE {last.frame[2]})

\* C17: sp is always in 0..16, and the slot a RET reads its return address
\* from is one of the 16 slots and was written by a CALL that was still
\* unmatched.
C17_SpInRangeRetReadsCallSlot ==
    /\ chip.sp \in 0..STACK_SIZE
    /\ (Ran("op_00ee") /\ Running(chip))
          => /\ RetSlot(last.pre) \in 0..(STACK_SIZE - 1)
             /\ RetSlot(last.pre) \in UnmatchedSlots

\* The sprite pixels of the DRW that fall on the screen: row below 32 and
\* column below 64 from the origin (Vx mod 64, Vy mod 32)
OnScreen(s) ==
    { rc \in (0..(FieldN(s) - 1)) \X (0..7) :
        /\ (s.registers[FieldY(s)] % 32) + rc[1] < VIDEO_HEIGHT
        /\ (s.registers[FieldX(s)] % 64) + rc[2] < VIDEO_WIDTH }

\* C18: a DRW ends without a fault (it indexes no framebuffer cell outside
\* 0..2047) also when part of the sprite lies right of column 63 or below
\* row 31, and the only framebuffer cells it changes are those under sprite
\* pixels that fall on the screen (nothing wraps to the next row or the top).
C18_DrawDropsPixelsOffScreen ==
    LET s == last.pre
        cells == { SpriteCell(s, rc[1], rc[2]) : rc \in OnScreen(s) }
    IN  Ran("op_dxyn")
            => /\ Running(chip)
               /\ \A i \in 0..(VIDEO_WIDTH * VIDEO_HEIGHT - 1) :
                     i \notin cells => chip.video[i] = s.video[i]

\* C19: ADD Vx,kk, SUBN Vx,Vy, SHL Vx (x, y # 0xF) and ADD I,Vx end without a
\* fault for all operand values, with Vx = (Vx + kk) mod 256,
\* Vx = (Vy - Vx) mod 256, Vx = (Vx * 2) mod 256 and
\* index = (index + Vx) mod 65536.
C19_OverflowWrapsWithoutFault ==
    LET s == last.pre
        a == s.registers[LastX]
        b == s.registers[LastY]
    IN  /\ Ran("op_7xkk")
              => /\ Running(chip)
                 /\ chip.registers[LastX] = (a + FieldKK(s)) % 256
        /\ (Ran("op_8xy7") /\ LastX # 15 /\ LastY # 15)
              => /\ Running(chip)
                 /\ chip.registers[LastX] = (b - a + 256) % 256
        /\ (Ran("op_8xye") /\ LastX # 15)
              => /\ Running(chip)
                 /\ chip.registers[LastX] = (a * 2) % 256
        /\ Ran("op_fx1e")
              => /\ Running(chip)
                 /\ chip.index = (s.index + a) % 65536

\* C20: LD F,Vx ends without a fault with index = 0x050 + 5 * (Vx mod 16):
\* 0x050 + 5 * Vx for a digit 0..15, and the base of the glyph of the low four
\* bits for a larger Vx, so index is the base of one of the 16 glyphs of the
\* font table 0x050..0x09F.
C20_FontIndexIsGlyphBase ==
    LET v == last.pre.registers[LastX]
    IN  Ran("op_fx29")
            => /\ Running(chip)
               /\ chip.index = FONTSET_START_ADDRESS + 5 * (v % 16)

\* C21: no handler and no cycle writes the keypad: after each of them, SKP,
\* SKNP and the key-wait included, the 16 keypad entries are those the
\* machine held before it.
C21_KeypadNeverWritten ==
    (last.op \in {"handler", "cycle"})
        => \A i \in 0..15 : chip.keypad[i] = last.pre.keypad[i]

\* the key-wait ran while key 0 was held and left it held
C21_Witness ==
    /\ Ran("op_fx0a")
    /\ Running(chip)
    /\ last.pre.keypad[0] = 1
    /\ chip.keypad[0] = 1

\* The step that led to this state addressed memory: the fetch of a cycle,
\* or DRW, LD B, LD [I],Vx or LD Vx,[I] (the DRW with its sprite on the
\* screen, so that memory is the only array it can miss)
AddressedMemory ==
    \/ (last.op = "cycle" /\ last.handler = "none")
    \/ Ran("op_dxyn") \/ Ran("op_fx33") \/ Ran("op_fx55") \/ Ran("op_fx65")

\* C22: the fetch of a cycle, DRW, LD B, LD [I],Vx and LD Vx,[I] address
\* memory only inside 0..0xFFF, whatever JP, JP V0, a skip, LD I and ADD I
\* made of pc and index before: none of them ends on a memory index that is
\* out of bounds.
C22_MemoryAddressesInRange ==
    AddressedMemory => chip.panic # IndexOutOfBounds

====
